---- MODULE Spec2Model ----
(***************************************************************************)
(* Model of scripts/smem_parity.py, the SMEM parity validator.             *)
(*                                                                         *)
(* Text is modelled as a sequence of one-character strings, so that the    *)
(* string operations of the script (splitlines, strip, startswith, join,   *)
(* the [TRAFFIC] regular expression, int() and str()) are computed on      *)
(* characters as the script computes them.                                 *)
(***************************************************************************)
EXTENDS Integers, Sequences, FiniteSets, TLC

(***************************************************************************)
(* Bounds of the model.                                                    *)
(***************************************************************************)
MaxDocLines == 3
MaxLogLines == 3
MaxRunLines == 3

(***************************************************************************)
(* Python string primitives on character sequences.                        *)
(***************************************************************************)
Digits == <<"0", "1", "2", "3", "4", "5", "6", "7", "8", "9">>

IsDigit(c) == \E d \in 1..10 : Digits[d] = c

DigitVal(c) == (CHOOSE d \in 1..10 : Digits[d] = c) - 1

\* str.isspace() on the characters of the model's alphabet
IsSpace(c) == c \in {" ", "\t", "\n", "\r", "\f"}

\* the line boundaries str.splitlines() recognises, within the alphabet
IsLineBreak(c) == c \in {"\n", "\r", "\f"}

\* s.startswith(p)
startswith(s, p) == Len(p) <= Len(s) /\ SubSeq(s, 1, Len(p)) = p

\* s.endswith(p)
endswith(s, p) == Len(p) <= Len(s) /\ SubSeq(s, Len(s) - Len(p) + 1, Len(s)) = p

\* does p occur in s at (1-based) position i
OccursAt(s, i, p) == i >= 1 /\ i + Len(p) - 1 <= Len(s) /\ SubSeq(s, i, i + Len(p) - 1) = p

\* p in s
contains(s, p) == \E i \in 1..(Len(s) + 1) : OccursAt(s, i, p)

Min(S) == CHOOSE x \in S : \A y \in S : x <= y

Max(S) == CHOOSE x \in S : \A y \in S : x >= y

\* s.lstrip(): from the first character that is not whitespace
lstrip(s) ==
    LET keep == {i \in 1..Len(s) : ~IsSpace(s[i])}
    IN  IF keep = {} THEN <<>> ELSE SubSeq(s, Min(keep), Len(s))

\* s.rstrip(): up to the last character that is not whitespace
rstrip(s) ==
    LET keep == {i \in 1..Len(s) : ~IsSpace(s[i])}
    IN  IF keep = {} THEN <<>> ELSE SubSeq(s, 1, Max(keep))

\* s.strip()
strip(s) == rstrip(lstrip(s))

\* text.splitlines(): a break ends a line, "\r\n" is one break, and a break at
\* the very end of the text opens no further line
RECURSIVE SplitFrom(_, _)
SplitFrom(text, i) ==
    IF i > Len(text) THEN <<>>
    ELSE LET breaks == {j \in i..Len(text) : IsLineBreak(text[j])}
         IN  IF breaks = {} THEN <<SubSeq(text, i, Len(text))>>
             ELSE LET j == Min(breaks)
                      next == IF text[j] = "\r" /\ j < Len(text) /\ text[j + 1] = "\n"
                              THEN j + 2 ELSE j + 1
                  IN  <<SubSeq(text, i, j - 1)>> \o SplitFrom(text, next)

splitlines(text) == SplitFrom(text, 1)

\* "\n".join(lines)
RECURSIVE join(_)
join(lines) ==
    IF lines = <<>> THEN <<>>
    ELSE IF Len(lines) = 1 THEN lines[1]
    ELSE lines[1] \o <<"\n">> \o join(Tail(lines))

\* str(n) of an integer
RECURSIVE NatToStr(_)
NatToStr(n) == IF n < 10 THEN <<Digits[n + 1]>> ELSE Append(NatToStr(n \div 10), Digits[(n % 10) + 1])

IntToStr(n) == IF n < 0 THEN <<"-">> \o NatToStr(0 - n) ELSE NatToStr(n)

\* int(s) of a run of decimal digits
RECURSIVE StrToInt(_)
StrToInt(s) == IF s = <<>> THEN 0 ELSE 10 * StrToInt(SubSeq(s, 1, Len(s) - 1)) + DigitVal(s[Len(s)])

(***************************************************************************)
(* Literals of the script.                                                 *)
(***************************************************************************)
SimHeader == <<"[", "s", "i", "m", "]">>
TrafficHeader == <<"[", "t", "r", "a", "f", "f", "i", "c", "]">>
TimeoutKey == <<"t", "i", "m", "e", "o", "u", "t">>
TimeoutAssign == TimeoutKey \o <<" ", "=", " ">>
FileAssign == <<"f", "i", "l", "e", " ", "=", " ">>

\* f"timeout = {timeout_cycles}"
TimeoutLine(timeout_cycles) == TimeoutAssign \o IntToStr(timeout_cycles)

\* stripped.startswith("[") and stripped.endswith("]")
IsHeader(stripped) == startswith(stripped, <<"[">>) /\ endswith(stripped, <<"]">>)

(***************************************************************************)
(* override_sim_timeout                                                    *)
(***************************************************************************)
\* the first loop with the test of in_sim dropped: a "timeout" line of any
\* section is replaced
RECURSIVE ReplaceLoopAnySection(_, _, _, _, _, _)
ReplaceLoopAnySection(lines, i, in_sim, replaced, out, timeout_cycles) ==
    IF i > Len(lines) THEN [out |-> out, replaced |-> replaced]
    ELSE LET line == lines[i]
             stripped == strip(line)
         IN  IF IsHeader(stripped)
             THEN ReplaceLoopAnySection(lines, i + 1, stripped = SimHeader, replaced,
                                        Append(out, line), timeout_cycles)
             ELSE IF startswith(stripped, TimeoutKey)
             THEN ReplaceLoopAnySection(lines, i + 1, in_sim, TRUE,
                                        Append(out, TimeoutLine(timeout_cycles)), timeout_cycles)
             ELSE ReplaceLoopAnySection(lines, i + 1, in_sim, replaced, Append(out, line),
                                        timeout_cycles)

\* the first loop with `replaced = True` forgotten
RECURSIVE ReplaceLoopNoFlag(_, _, _, _, _, _)
ReplaceLoopNoFlag(lines, i, in_sim, replaced, out, timeout_cycles) ==
    IF i > Len(lines) THEN [out |-> out, replaced |-> replaced]
    ELSE LET line == lines[i]
             stripped == strip(line)
         IN  IF IsHeader(stripped)
             THEN ReplaceLoopNoFlag(lines, i + 1, stripped = SimHeader, replaced,
                                    Append(out, line), timeout_cycles)
             ELSE IF in_sim /\ startswith(stripped, TimeoutKey)
             THEN ReplaceLoopNoFlag(lines, i + 1, in_sim, replaced,
                                    Append(out, TimeoutLine(timeout_cycles)), timeout_cycles)
             ELSE ReplaceLoopNoFlag(lines, i + 1, in_sim, replaced, Append(out, line),
                                    timeout_cycles)

\* the first loop: every line of a [sim] section that starts with "timeout"
\* is replaced; the result carries the `replaced` flag
RECURSIVE ReplaceLoop(_, _, _, _, _, _)
ReplaceLoop(lines, i, in_sim, replaced, out, timeout_cycles) ==
    IF i > Len(lines) THEN [out |-> out, replaced |-> replaced]
    ELSE LET line == lines[i]
             stripped == strip(line)
         IN  IF IsHeader(stripped)
             THEN ReplaceLoop(lines, i + 1, stripped = SimHeader, replaced,
                              Append(out, line), timeout_cycles)
             ELSE IF in_sim /\ startswith(stripped, TimeoutKey)
             THEN ReplaceLoop(lines, i + 1, in_sim, TRUE,
                              Append(out, TimeoutLine(timeout_cycles)), timeout_cycles)
             ELSE ReplaceLoop(lines, i + 1, in_sim, replaced, Append(out, line),
                              timeout_cycles)

\* the second loop with the line inserted right after the [sim] header
RECURSIVE InsertLoopAfterHeader(_, _, _, _, _, _)
InsertLoopAfterHeader(out, i, in_sim, inserted, rebuilt, timeout_cycles) ==
    IF i > Len(out) THEN rebuilt
    ELSE LET line == out[i]
             stripped == strip(line)
         IN  IF stripped = SimHeader /\ ~inserted
             THEN InsertLoopAfterHeader(out, i + 1, TRUE, TRUE,
                                        rebuilt \o <<line, TimeoutLine(timeout_cycles)>>,
                                        timeout_cycles)
             ELSE InsertLoopAfterHeader(out, i + 1, in_sim, inserted, Append(rebuilt, line),
                                        timeout_cycles)

\* the second loop, run when nothing was replaced
RECURSIVE InsertLoop(_, _, _, _, _, _)
InsertLoop(out, i, in_sim, inserted, rebuilt, timeout_cycles) ==
    IF i > Len(out)
    THEN IF in_sim /\ ~inserted THEN Append(rebuilt, TimeoutLine(timeout_cycles)) ELSE rebuilt
    ELSE LET line == out[i]
             stripped == strip(line)
         IN  IF stripped = SimHeader
             THEN InsertLoop(out, i + 1, TRUE, inserted, Append(rebuilt, line), timeout_cycles)
             ELSE IF in_sim /\ IsHeader(stripped) /\ ~inserted
             THEN InsertLoop(out, i + 1, FALSE, TRUE,
                             rebuilt \o <<TimeoutLine(timeout_cycles), line>>, timeout_cycles)
             ELSE InsertLoop(out, i + 1, in_sim, inserted, Append(rebuilt, line),
                             timeout_cycles)

\* the list of lines the function joins at its end
override_lines(base_text, timeout_cycles) ==
    LET first == ReplaceLoop(splitlines(base_text), 1, FALSE, FALSE, <<>>, timeout_cycles)
    IN  IF first.replaced THEN first.out
        ELSE InsertLoop(first.out, 1, FALSE, FALSE, <<>>, timeout_cycles)

override_sim_timeout(base_text, timeout_cycles) ==
    join(override_lines(base_text, timeout_cycles))
        \o (IF endswith(base_text, <<"\n">>) THEN <<"\n">> ELSE <<>>)

(***************************************************************************)
(* append_traffic_file_to_config                                           *)
(***************************************************************************)
\* the guard looking for the header at the start of the text only
append_raises_at_start(base_text) == startswith(base_text, TrafficHeader)

\* the guard of the RuntimeError
append_raises(base_text) == contains(base_text, TrafficHeader)

\* the returned text, when the guard does not raise
append_traffic_file_to_config(base_text, traffic_file_rel) ==
    LET text == IF endswith(base_text, <<"\n">>) THEN base_text ELSE base_text \o <<"\n">>
    IN  text \o <<"\n">> \o TrafficHeader \o <<"\n">>
             \o FileAssign \o <<"\"">> \o traffic_file_rel \o <<"\"", "\n">>

(***************************************************************************)
(* TRAFFIC_LINE_RE and parse_traffic_lines                                 *)
(***************************************************************************)
Marker == <<"[", "T", "R", "A", "F", "F", "I", "C", "]">>
CoreWord == <<"c", "o", "r", "e">>
FinishedPhrase == <<"f", "i", "n", "i", "s", "h", "e", "d", " ", "a", "t", " ", "t", "i", "m", "e">>

\* the position after the run of whitespace (\s*) that starts at i
SkipSpace(s, i) ==
    IF i > Len(s) THEN i ELSE Min({j \in i..(Len(s) + 1) : j > Len(s) \/ ~IsSpace(s[j])})

\* the position after the run of digits (\d*) that starts at i
SkipDigits(s, i) ==
    IF i > Len(s) THEN i ELSE Min({j \in i..(Len(s) + 1) : j > Len(s) \/ ~IsDigit(s[j])})

\* \[TRAFFIC\]\s+core\s+(?P<core>\d+)\s  matched at position p: the digits of
\* the core group are raw[from..to], and one whitespace follows them
HeadAt(raw, p) ==
    LET a == p + Len(Marker)
        b == SkipSpace(raw, a)
        c == b + Len(CoreWord)
        d == SkipSpace(raw, c)
        e == SkipDigits(raw, d)
    IN  [ok |-> /\ OccursAt(raw, p, Marker)
                /\ b > a
                /\ OccursAt(raw, b, CoreWord)
                /\ d > c
                /\ e > d
                /\ e <= Len(raw)
                /\ IsSpace(raw[e]),
         from |-> d,
         to |-> e - 1]

\* \sfinished at time\s+(?P<cycle>\d+)\s*$  with the phrase at position q
TailAt(raw, q) ==
    LET g == q + Len(FinishedPhrase)
        h == SkipSpace(raw, g)
        k == SkipDigits(raw, h)
    IN  [ok |-> /\ q >= 2
                /\ IsSpace(raw[q - 1])
                /\ OccursAt(raw, q, FinishedPhrase)
                /\ h > g
                /\ k > h
                /\ SkipSpace(raw, k) > Len(raw),
         from |-> h,
         to |-> k - 1]

\* the phrase positions that leave room for \s+ (?P<name>.+?) \s+ after the
\* core digits of a head matched at p
TailPositions(raw, p) ==
    {q \in (HeadAt(raw, p).to + 4)..Len(raw) : TailAt(raw, q).ok}

\* the whole pattern matches with its first character at p
MatchesAt(raw, p) == HeadAt(raw, p).ok /\ TailPositions(raw, p) # {}

\* TRAFFIC_LINE_RE.search(raw): the leftmost match, with its groups; the name
\* group is returned stripped, as parse_traffic_lines reads it
search(raw) ==
    LET starts == {p \in 1..Len(raw) : MatchesAt(raw, p)}
    IN  IF starts = {} THEN [matched |-> FALSE]
        ELSE LET p == Min(starts)
                 head == HeadAt(raw, p)
                 q == Min(TailPositions(raw, p))
                 tail == TailAt(raw, q)
             IN  [matched |-> TRUE,
                  core |-> SubSeq(raw, head.from, head.to),
                  name |-> strip(SubSeq(raw, head.to + 1, q - 1)),
                  cycle |-> SubSeq(raw, tail.from, tail.to)]

TrafficLine(pattern_name, cycle) == [pattern_name |-> pattern_name, cycle |-> cycle]

\* the body of the loop with the test of the core left out
parse_step_any_core(rows, raw, core) ==
    LET match == search(raw)
    IN  IF ~match.matched THEN rows
        ELSE Append(rows, TrafficLine(match.name, StrToInt(match.cycle)))

\* the body of the loop of parse_traffic_lines, for one raw line
parse_step(rows, raw, core) ==
    LET match == search(raw)
    IN  IF ~match.matched THEN rows
        ELSE IF StrToInt(match.core) # core THEN rows
        ELSE Append(rows, TrafficLine(match.name, StrToInt(match.cycle)))

RECURSIVE ParseFrom(_, _, _, _)
ParseFrom(raws, i, rows, core) ==
    IF i > Len(raws) THEN rows
    ELSE ParseFrom(raws, i + 1, parse_step(rows, raws[i], core), core)

parse_traffic_lines(text, core) == ParseFrom(splitlines(text), 1, <<>>, core)

(***************************************************************************)
(* traffic_type                                                            *)
(***************************************************************************)
traffic_type(pattern_name) ==
    LET parens == {i \in 1..Len(pattern_name) : pattern_name[i] = "("}
        unders == {i \in 1..Len(pattern_name) : pattern_name[i] = "_"}
    IN  IF parens # {} THEN SubSeq(pattern_name, 1, Min(parens) - 1)
        ELSE IF unders # {} THEN SubSeq(pattern_name, 1, Max(unders) - 1)
        ELSE pattern_name

(***************************************************************************)
(* Inputs of the model.                                                    *)
(***************************************************************************)
\* all sequences of at most n elements of S
RECURSIVE SeqsUpTo(_, _)
SeqsUpTo(S, n) ==
    IF n = 0 THEN {<<>>}
    ELSE LET shorter == SeqsUpTo(S, n - 1)
         IN  shorter \cup {Append(s, x) : s \in shorter, x \in S}

\* lines of a configuration document
OtherHeader == <<"[", "a", "]">>
KeyLine == <<"k", "=", "1">>
OldTimeoutLine == <<" ", "t", "i", "m", "e", "o", "u", "t", "=", "5">>
InlineTraffic == <<"p", "=">> \o TrafficHeader
DocLines == {SimHeader, OtherHeader, TrafficHeader, KeyLine, OldTimeoutLine, InlineTraffic, <<>>}

\* documents: the lines joined, with or without a newline at the end
Docs == {join(ls) \o nl : ls \in SeqsUpTo(DocLines, MaxDocLines), nl \in {<<>>, <<"\n">>}}

\* values of --sim-timeout and of --traffic-config
SimTimeouts == {7, 120}
TrafficConfig == <<"t", ".", "t", "o", "m", "l">>

\* a line as the simulator and the reference write it
EventLine(core, name, cycle) ==
    Marker \o <<" ">> \o CoreWord \o <<" ">> \o IntToStr(core) \o <<" ">> \o name
           \o <<" ">> \o FinishedPhrase \o <<" ">> \o IntToStr(cycle)

Rd4 == <<"r", "d", "(", "4", ")">>
Rd8 == <<"r", "d", "(", "8", ")">>
Wr7 == <<"w", "r", "_", "7">>

\* lines of the logs handed to the parser alone: another core, text before
\* the marker, runs of blanks, a core written with leading zeros, a name with a
\* blank in it, a line without the timestamp, a line with two markers
NoisyLine ==
    <<"x", " ">> \o Marker \o <<" ", " ">> \o CoreWord \o <<" ", "0", "0", " ", " ", "a", " ", "b", " ", "\t">>
        \o FinishedPhrase \o <<" ", " ", "7", " ">>
CutLine == Marker \o <<" ">> \o CoreWord \o <<" ", "0", " ">> \o Rd4 \o <<" ", "f", "i", "n", "i", "s", "h", "e", "d">>
TwoMarkerLine == Marker \o <<" ">> \o CoreWord \o <<" ", "1", " ">> \o EventLine(0, Wr7, 3)
LogLines == {EventLine(0, Rd4, 10), EventLine(1, Rd4, 12), NoisyLine, CutLine, TwoMarkerLine}
LogTexts == {join(ls) : ls \in SeqsUpTo(LogLines, MaxLogLines)}
Cores == {0, 1}

\* the reference logs of a whole run: none, one, two, three and four events,
\* of two categories, the first of which comes back
RefRd4 == EventLine(0, Rd4, 10)
RefWr7 == EventLine(0, Wr7, 25)
RefRd8 == EventLine(0, Rd8, 12)
RefLogs ==
    {join(ls) \o <<"\n">> :
        ls \in {<<>>, <<RefRd4>>, <<RefWr7, RefRd4>>, <<RefRd4, RefWr7, RefRd8>>,
                <<RefRd8, RefWr7, RefWr7, RefRd4>>}}

\* what the simulator may print: every log of at most MaxRunLines events
CandLines == {EventLine(0, Rd4, 13), EventLine(0, Wr7, 21), EventLine(0, Rd8, 17)}
CandLogs == {join(ls) \o <<"\n">> : ls \in SeqsUpTo(CandLines, MaxRunLines)}

\* base configurations of a whole run
BaseConfigs ==
    {join(<<SimHeader, OldTimeoutLine>>) \o <<"\n">>,
     join(<<OtherHeader, KeyLine>>),
     join(<<SimHeader, KeyLine, TrafficHeader, KeyLine>>) \o <<"\n">>,
     join(<<TrafficHeader>>)}

\* argparse defaults of --core and --sim-timeout
DefaultCore == 0
DefaultSimTimeout == 50000000

(***************************************************************************)
(* State.                                                                  *)
(***************************************************************************)
VARIABLES
    \* the configuration mutator, applied to a document
    doc,            \* the current document text
    prev,           \* the text the last operation was applied to
    hist,           \* the operations applied so far: [op, arg, ok]
    \* parse_traffic_lines, line by line
    log_text,       \* the text of the file at `path`
    log_core,       \* the `core` argument
    parse_pc,       \* "read", "scan", "returned"
    raws,           \* the lines still to scan
    rows,           \* the local list `rows`
    \* main
    pc,             \* position in main
    base_config,    \* the text of the file at base_config_path
    reference_out,  \* the text of the file at reference_out
    invoked,        \* the external processes invoked so far, in order
    run_config,     \* the file at run_config_path: <<>> or <<text>>
    sim_result,     \* how the simulator process ended and what it printed
    candidate_log,  \* the file at candidate_log: <<>> or <<text>>
    ref,
    cand,
    idx,
    accum_abs_err,
    accum_by_type,
    report,         \* the rows printed so far
    failure,        \* how the run ended, "none" while it has not failed
    message         \* what the failure reports

mutVars == <<doc, prev, hist>>
parseVars == <<log_text, log_core, parse_pc, raws, rows>>
mainVars == <<pc, base_config, reference_out, invoked, run_config, sim_result, candidate_log,
              ref, cand, idx, accum_abs_err, accum_by_type, report, failure, message>>
vars == <<mutVars, parseVars, mainVars>>

MutIdle == doc = <<>> /\ prev = <<>> /\ hist = <<>>
ParseIdle == log_text = <<>> /\ log_core = 0 /\ parse_pc = "idle" /\ raws = <<>> /\ rows = <<>>
MainIdle ==
    /\ pc = "idle" /\ base_config = <<>> /\ reference_out = <<>> /\ invoked = <<>>
    /\ run_config = <<>> /\ sim_result = [outcome |-> "none"] /\ candidate_log = <<>>
    /\ ref = <<>> /\ cand = <<>> /\ idx = 0 /\ accum_abs_err = 0 /\ accum_by_type = <<>>
    /\ report = <<>> /\ failure = "none" /\ message = [see |-> "nothing"]

(***************************************************************************)
(* The configuration mutator: the two transforms, applied to a document    *)
(* one after the other.                                                    *)
(***************************************************************************)
InitMut == doc \in Docs /\ prev = doc /\ hist = <<>> /\ ParseIdle /\ MainIdle

\* two applications in a row are what the claims compose
CanApply == Len(hist) < 2

Override ==
    /\ CanApply
    /\ \E v \in SimTimeouts :
          /\ doc' = override_sim_timeout(doc, v)
          /\ hist' = Append(hist, [op |-> "override", arg |-> v, ok |-> TRUE])
    /\ prev' = doc
    /\ UNCHANGED <<parseVars, mainVars>>

AppendTraffic ==
    /\ CanApply
    /\ prev' = doc
    /\ IF append_raises(doc)
       THEN /\ doc' = doc
            /\ hist' = Append(hist, [op |-> "append", arg |-> TrafficConfig, ok |-> FALSE])
       ELSE /\ doc' = append_traffic_file_to_config(doc, TrafficConfig)
            /\ hist' = Append(hist, [op |-> "append", arg |-> TrafficConfig, ok |-> TRUE])
    /\ UNCHANGED <<parseVars, mainVars>>

NextMut == Override \/ AppendTraffic

SpecMut == InitMut /\ [][NextMut]_vars

(***************************************************************************)
(* Properties of the configuration mutator.                                *)
(***************************************************************************)
LastOp == hist[Len(hist)]

Overridden == hist # <<>> /\ LastOp.op = "override"

Appended == hist # <<>> /\ LastOp.op = "append"

\* line i lies inside a [sim] section: it is no header, and the nearest header
\* above it is [sim]
InSim(lines, i) ==
    /\ ~IsHeader(strip(lines[i]))
    /\ \E h \in 1..(i - 1) :
          /\ strip(lines[h]) = SimHeader
          /\ \A j \in (h + 1)..(i - 1) : ~IsHeader(strip(lines[j]))

\* the lines inside [sim] whose trimmed content starts with "timeout"
TimeoutLines(lines) ==
    {i \in 1..Len(lines) : InSim(lines, i) /\ startswith(strip(lines[i]), TimeoutKey)}

\* the [sim] headers of a document
SimHeaders(lines) == {h \in 1..Len(lines) : strip(lines[h]) = SimHeader}

\* the line that ends the section of the header at h: the next header, or the
\* position after the last line
SectionEnd(lines, h) ==
    Min({j \in (h + 1)..Len(lines) : IsHeader(strip(lines[j]))} \cup {Len(lines) + 1})

\* the [sim] headers whose section holds no timeout line
SimWithoutTimeout(lines) ==
    {h \in SimHeaders(lines) :
        \A j \in (h + 1)..(SectionEnd(lines, h) - 1) : ~startswith(strip(lines[j]), TimeoutKey)}

\* lines with one line put in front of position e
InsertAt(lines, e, line) == SubSeq(lines, 1, e - 1) \o <<line>> \o SubSeq(lines, e, Len(lines))

\* lines unchanged, or with one line inserted somewhere
SameOrOneInserted(in, out, line) ==
    \/ out = in
    \/ \E e \in 1..(Len(in) + 1) : out = InsertAt(in, e, line)

\* C4 as stated: only the first timeout line of [sim] is replaced (or one line
\* is inserted when there is none), and every other line, a later timeout line
\* of [sim] included, is in the output unchanged and in the same order.
C4_OnlyFirstReplaced ==
    Overridden =>
        LET in == splitlines(prev)
            out == splitlines(doc)
            new == TimeoutLine(LastOp.arg)
        IN  IF TimeoutLines(in) # {}
            THEN out = [in EXCEPT ![Min(TimeoutLines(in))] = new]
            ELSE SameOrOneInserted(in, out, new)

\* C4 amended: override_sim_timeout replaces every line inside a [sim] section
\* whose trimmed content starts with "timeout", the later ones included (or
\* inserts one line when there is none); every other line, every section
\* header and every line of every other section, is in the output unchanged
\* and in the same relative order.
C4_EveryTimeoutLineReplaced ==
    Overridden =>
        LET in == splitlines(prev)
            out == splitlines(doc)
            new == TimeoutLine(LastOp.arg)
        IN  IF TimeoutLines(in) # {}
            THEN out = [i \in 1..Len(in) |-> IF i \in TimeoutLines(in) THEN new ELSE in[i]]
            ELSE SameOrOneInserted(in, out, new)

\* the override met a [sim] section with two timeout lines, among other lines
C4_Witness ==
    /\ Overridden
    /\ Cardinality(TimeoutLines(splitlines(prev))) >= 2
    /\ splitlines(doc) # splitlines(prev)

\* C5: applying the override to a document the override was just applied to,
\* with the same value, yields that document again.
C5_Idempotent == Overridden => override_sim_timeout(doc, LastOp.arg) = doc

\* the override was applied twice with one value, the first time to a document
\* it had to insert the line into
C5_Witness ==
    /\ Len(hist) = 2
    /\ hist[1].op = "override" /\ hist[2].op = "override" /\ hist[1].arg = hist[2].arg
    /\ SimHeaders(splitlines(doc)) # {}
    /\ doc = prev

\* C6: the append fails whenever the literal [traffic] occurs anywhere in the
\* document and only then; a second append after a successful one fails; and a
\* returned document keeps the text it was given and holds one [traffic] header.
C6_NeverOverwrites ==
    /\ Appended => (LastOp.ok <=> ~contains(prev, TrafficHeader))
    /\ Appended /\ ~LastOp.ok => doc = prev
    /\ Len(hist) = 2 /\ hist[1].op = "append" /\ hist[1].ok /\ hist[2].op = "append"
          => ~hist[2].ok
    /\ Appended /\ LastOp.ok =>
          /\ startswith(doc, prev)
          /\ Cardinality({i \in 1..Len(doc) : OccursAt(doc, i, TrafficHeader)}) = 1
          /\ Cardinality({i \in 1..Len(splitlines(doc)) :
                             strip(splitlines(doc)[i]) = TrafficHeader}) = 1

\* a successful append was followed by a second one, which failed
C6_Witness ==
    /\ Len(hist) = 2
    /\ hist[1].op = "append" /\ hist[1].ok
    /\ hist[2].op = "append" /\ ~hist[2].ok
    /\ doc = prev

InitParse ==
    /\ log_text \in LogTexts /\ log_core \in Cores
    /\ parse_pc = "read" /\ raws = <<>> /\ rows = <<>>
    /\ MutIdle /\ MainIdle

ReadLog ==
    /\ parse_pc = "read"
    /\ raws' = splitlines(log_text)
    /\ rows' = <<>>
    /\ parse_pc' = "scan"
    /\ UNCHANGED <<log_text, log_core, mutVars, mainVars>>

ScanLine ==
    /\ parse_pc = "scan"
    /\ raws # <<>>
    /\ rows' = parse_step(rows, Head(raws), log_core)
    /\ raws' = Tail(raws)
    /\ UNCHANGED <<log_text, log_core, parse_pc, mutVars, mainVars>>

ReturnRows ==
    /\ parse_pc = "scan"
    /\ raws = <<>>
    /\ parse_pc' = "returned"
    /\ UNCHANGED <<log_text, log_core, raws, rows, mutVars, mainVars>>

NextParse == ReadLog \/ ScanLine \/ ReturnRows

SpecParse == InitParse /\ [][NextParse]_vars

(***************************************************************************)
(* Properties of the parser.                                               *)
(***************************************************************************)
\* the line matches the pattern and its core field is the requested one
Selected(raw) == search(raw).matched /\ StrToInt(search(raw).core) = log_core

\* the event of a selected line
EventOf(raw) == TrafficLine(search(raw).name, StrToInt(search(raw).cycle))

\* the events of the selected lines of `lines`, in the order of the lines
EventsOf(lines) ==
    LET keep == SelectSeq(lines, Selected)
    IN  [k \in 1..Len(keep) |-> EventOf(keep[k])]

\* C7: the rows built from the lines scanned so far, and the rows returned, are
\* exactly the events of the lines that match the pattern with the requested
\* core, one per such line, in the order of the lines.
C7_ExactSubsequence ==
    parse_pc \in {"scan", "returned"} =>
        LET lines == splitlines(log_text)
        IN  rows = EventsOf(SubSeq(lines, 1, Len(lines) - Len(raws)))

\* three lines were scanned: two equal lines of the requested core were both
\* kept, in order, and the third line was left out
C7_Witness ==
    /\ parse_pc = "returned"
    /\ Len(splitlines(log_text)) = 3
    /\ Len(rows) = 2
    /\ rows[1] = rows[2]
    /\ \E i \in 1..3 : search(splitlines(log_text)[i]).matched /\ ~Selected(splitlines(log_text)[i])

(***************************************************************************)
(* main: one run of the validator.                                         *)
(***************************************************************************)
\* how an external process can end: exit status 0, another exit status, or
\* not within the timeout_s of subprocess.run
Outcomes == {"exit0", "nonzero", "timeout"}

Init ==
    /\ pc = "generate"
    /\ base_config \in BaseConfigs
    /\ reference_out \in RefLogs
    /\ invoked = <<>>
    /\ run_config = <<>>
    /\ sim_result = [outcome |-> "none"]
    /\ candidate_log = <<>>
    /\ ref = <<>> /\ cand = <<>> /\ idx = 0
    /\ accum_abs_err = 0 /\ accum_by_type = <<>>
    /\ report = <<>>
    /\ failure = "none"
    /\ message = [see |-> "nothing"]
    /\ MutIdle /\ ParseIdle

\* run_command(gen_cmd, ...) without a log_path, and the check of its status
RunGenerator ==
    /\ pc = "generate"
    /\ invoked' = Append(invoked, "generator")
    /\ \E outcome \in Outcomes :
          CASE outcome = "timeout" ->
                  /\ pc' = "abort"
                  /\ failure' = "TimeoutExpired"
                  /\ message' = [see |-> "command"]
            [] outcome = "nonzero" ->
                  /\ pc' = "abort"
                  /\ failure' = "generation_failed"
                  /\ message' = [see |-> "stdout"]
            [] outcome = "exit0" ->
                  /\ pc' = "config"
                  /\ UNCHANGED <<failure, message>>
    /\ UNCHANGED <<base_config, reference_out, run_config, sim_result, candidate_log,
                   ref, cand, idx, accum_abs_err, accum_by_type, report>>
    /\ UNCHANGED <<mutVars, parseVars>>

\* the run configuration: timeout override, then the [traffic] table
WriteRunConfig ==
    /\ pc = "config"
    /\ LET base_text == override_sim_timeout(base_config, DefaultSimTimeout)
       IN  IF append_raises(base_text)
           THEN /\ pc' = "abort"
                /\ failure' = "duplicate_section"
                /\ message' = [see |-> "base config"]
                /\ UNCHANGED run_config
           ELSE /\ run_config' = <<append_traffic_file_to_config(base_text, TrafficConfig)>>
                /\ pc' = "simulate"
                /\ UNCHANGED <<failure, message>>
    /\ UNCHANGED <<base_config, reference_out, invoked, sim_result, candidate_log,
                   ref, cand, idx, accum_abs_err, accum_by_type, report>>
    /\ UNCHANGED <<mutVars, parseVars>>

\* run_command(cyclotron_cmd, ..., log_path=candidate_log): subprocess.run
\* raises TimeoutExpired out of run_command before the log is written
RunSimulator ==
    /\ pc = "simulate"
    /\ invoked' = Append(invoked, "simulator")
    /\ \E outcome \in Outcomes, stdout \in CandLogs :
          /\ sim_result' = [outcome |-> outcome, stdout |-> stdout]
          /\ CASE outcome = "timeout" ->
                  /\ pc' = "abort"
                  /\ failure' = "TimeoutExpired"
                  /\ message' = [see |-> "command"]
                  /\ UNCHANGED candidate_log
            [] outcome = "nonzero" ->
                  /\ candidate_log' = <<stdout>>
                  /\ pc' = "abort"
                  /\ failure' = "run_failed"
                  /\ message' = [see |-> "candidate_log"]
            [] outcome = "exit0" ->
                  /\ candidate_log' = <<stdout>>
                  /\ pc' = "parse"
                  /\ UNCHANGED <<failure, message>>
    /\ UNCHANGED <<base_config, reference_out, run_config,
                   ref, cand, idx, accum_abs_err, accum_by_type, report>>
    /\ UNCHANGED <<mutVars, parseVars>>

ParseLogs ==
    /\ pc = "parse"
    /\ ref' = parse_traffic_lines(reference_out, DefaultCore)
    /\ cand' = parse_traffic_lines(candidate_log[1], DefaultCore)
    /\ pc' = "count"
    /\ UNCHANGED <<base_config, reference_out, invoked, run_config, sim_result, candidate_log,
                   idx, accum_abs_err, accum_by_type, report, failure, message>>
    /\ UNCHANGED <<mutVars, parseVars>>

\* only a shorter candidate is taken for a mismatch
count_mismatch_shorter(r, c) == Len(r) > Len(c)

\* len(ref) != len(cand)
count_mismatch(r, c) == Len(r) # Len(c)

\* the count check, and the initialisation of the accumulators
CheckCount ==
    /\ pc = "count"
    /\ IF count_mismatch(ref, cand)
       THEN /\ pc' = "abort"
            /\ failure' = "count_mismatch"
            /\ message' = [see |-> "candidate_log", reference |-> Len(ref),
                           candidate |-> Len(cand)]
            /\ UNCHANGED <<idx, accum_abs_err, accum_by_type>>
       ELSE /\ pc' = "compare"
            /\ idx' = 0
            /\ accum_abs_err' = 0
            /\ accum_by_type' = <<>>
            /\ UNCHANGED <<failure, message>>
    /\ UNCHANGED <<base_config, reference_out, invoked, run_config, sim_result, candidate_log,
                   ref, cand, report>>
    /\ UNCHANGED <<mutVars, parseVars>>

\* the signed error, added as it is
abs_signed(error) == error

\* abs(error)
abs(error) == IF error < 0 THEN 0 - error ELSE error

\* accum_by_type[ttype], of a defaultdict(int)
TypeSum(by_type, ttype) == IF ttype \in DOMAIN by_type THEN by_type[ttype] ELSE 0

\* accum_by_type[ttype] += abs_error
AddToType(by_type, ttype, abs_error) ==
    [t \in DOMAIN by_type \cup {ttype} |->
        IF t = ttype THEN TypeSum(by_type, ttype) + abs_error ELSE by_type[t]]

\* the row printed for one index
Row(i, r, c, accum, by_type) ==
    [idx |-> i,
     traffic_type |-> traffic_type(r.pattern_name),
     pattern |-> r.pattern_name,
     rtl |-> r.cycle,
     cyclotron |-> c.cycle,
     error |-> c.cycle - r.cycle,
     accum_abs_err |-> accum,
     accum_type_abs_err |-> TypeSum(by_type, traffic_type(r.pattern_name))]

\* the row replaces what was printed
emit_last_only(printed, row) == <<row>>

\* print(...) of a row
emit(printed, row) == Append(printed, row)

\* the number of pairs of zip(ref, cand)
Pairs == IF Len(ref) < Len(cand) THEN Len(ref) ELSE Len(cand)

\* one iteration of the loop over zip(ref, cand)
CompareStep ==
    /\ pc = "compare"
    /\ idx < Pairs
    /\ LET r == ref[idx + 1]
           c == cand[idx + 1]
       IN  IF r.pattern_name # c.pattern_name
           THEN /\ pc' = "abort"
                /\ failure' = "order_mismatch"
                /\ message' = [see |-> "nothing", idx |-> idx,
                               reference |-> r.pattern_name, candidate |-> c.pattern_name]
                /\ UNCHANGED <<idx, accum_abs_err, accum_by_type, report>>
           ELSE LET abs_error == abs(c.cycle - r.cycle)
                    accum == accum_abs_err + abs_error
                    by_type == AddToType(accum_by_type, traffic_type(r.pattern_name), abs_error)
                IN  /\ accum_abs_err' = accum
                    /\ accum_by_type' = by_type
                    /\ report' = emit(report, Row(idx, r, c, accum, by_type))
                    /\ idx' = idx + 1
                    /\ UNCHANGED <<pc, failure, message>>
    /\ UNCHANGED <<base_config, reference_out, invoked, run_config, sim_result, candidate_log,
                   ref, cand>>
    /\ UNCHANGED <<mutVars, parseVars>>

\* the loop is exhausted: the candidate log is named and main returns 0
Finish ==
    /\ pc = "compare"
    /\ idx >= Pairs
    /\ pc' = "done"
    /\ message' = [see |-> "candidate_log"]
    /\ UNCHANGED <<base_config, reference_out, invoked, run_config, sim_result, candidate_log,
                   ref, cand, idx, accum_abs_err, accum_by_type, report, failure>>
    /\ UNCHANGED <<mutVars, parseVars>>

Next ==
    \/ RunGenerator
    \/ WriteRunConfig
    \/ RunSimulator
    \/ ParseLogs
    \/ CheckCount
    \/ CompareStep
    \/ Finish

Spec == Init /\ [][Next]_vars

(***************************************************************************)
(* Properties of a run.                                                    *)
(***************************************************************************)
Ended == pc \in {"abort", "done"}

\* the run got as far as the comparison
Compared == Ended /\ sim_result.outcome = "exit0"

NamesDifferAt(i) == ref[i].pattern_name # cand[i].pattern_name

SomeNameDiffers == \E i \in 1..Pairs : NamesDifferAt(i)

\* C1 as stated: count mismatch exactly when the lengths differ, order mismatch
\* exactly when some index has differing names, and no error otherwise.
C1_ExactlyWhen ==
    Compared =>
        /\ failure = "count_mismatch" <=> Len(ref) # Len(cand)
        /\ failure = "order_mismatch" <=> SomeNameDiffers
        /\ Len(ref) = Len(cand) /\ ~SomeNameDiffers => pc = "done" /\ failure = "none"

\* C1 amended: the comparison fails with the count-mismatch error exactly when
\* the two lengths differ, and with the order-mismatch error exactly when the
\* lengths are equal and some index has differing names (the count check comes
\* first: sequences of different lengths fail with the count mismatch alone,
\* whatever their names); when neither holds it completes without error.
C1_CountCheckFirst ==
    Compared =>
        /\ failure = "count_mismatch" <=> Len(ref) # Len(cand)
        /\ failure = "order_mismatch" <=> (Len(ref) = Len(cand) /\ SomeNameDiffers)
        /\ Len(ref) = Len(cand) /\ ~SomeNameDiffers => pc = "done" /\ failure = "none"

\* a run ended with the count mismatch although names differ at a common index
C1_Witness ==
    /\ Compared
    /\ failure = "count_mismatch"
    /\ SomeNameDiffers

\* C2 as stated: a run that ends with a count or an order mismatch has
\* emitted no row; a run emits one row per index or none at all.
C2_NoPartialResult ==
    /\ failure \in {"count_mismatch", "order_mismatch"} => report = <<>>
    /\ Ended => \/ report = <<>>
                \/ Len(report) = Len(ref) /\ Len(report) = Len(cand)

\* the index (from 0) of the first pair with differing names
FirstDifference == Min({i \in 1..Pairs : NamesDifferAt(i)}) - 1

\* C2 amended: a run that ends with a count mismatch has emitted no row; a run
\* that ends with an order mismatch at index i has emitted the rows of the
\* indices below i, which are those before the first differing pair, and no
\* other; a run that completes has emitted one row for every index.
C2_RowsUntilMismatch ==
    /\ failure = "count_mismatch" => report = <<>>
    /\ failure = "order_mismatch" =>
          /\ message.idx = FirstDifference
          /\ Len(report) = message.idx
    /\ pc = "done" => Len(report) = Len(ref) /\ Len(report) = Len(cand)
    /\ \A k \in 1..Len(report) :
          /\ report[k].idx = k - 1
          /\ report[k].pattern = ref[k].pattern_name
          /\ report[k].pattern = cand[k].pattern_name

\* a run ended with an order mismatch after it had emitted two rows
C2_Witness ==
    /\ failure = "order_mismatch"
    /\ Len(report) = 2
    /\ Len(ref) > 2

\* some line of the text is the [traffic] header
HasTrafficSection(text) ==
    \E i \in 1..Len(splitlines(text)) : strip(splitlines(text)[i]) = TrafficHeader

Invoked(process) == \E i \in 1..Len(invoked) : invoked[i] = process

\* C3 as stated: with [traffic] in the base configuration the run aborts with
\* the duplicate-section error before any external process has been invoked.
C3_BeforeAnyInvocation == failure = "duplicate_section" => invoked = <<>>

\* C3 amended: with [traffic] in the base configuration the simulator is never
\* invoked and no run configuration is written; once the traffic-descriptor
\* generator has been invoked and has succeeded, the run aborts with the
\* duplicate-section error (when the generator fails, with the generator's
\* failure). In every run the duplicate-section check comes after the
\* generator's invocation and before the simulator's.
C3_BeforeTheSimulator ==
    /\ HasTrafficSection(base_config) =>
          /\ ~Invoked("simulator")
          /\ run_config = <<>>
          /\ Ended => failure \in {"duplicate_section", "generation_failed", "TimeoutExpired"}
          /\ pc \notin {"generate", "config"} => Ended
    /\ failure = "duplicate_section" =>
          HasTrafficSection(base_config) /\ invoked = <<"generator">>
    /\ Invoked("simulator") => run_config # <<>> /\ invoked = <<"generator", "simulator">>

\* the run aborted on the [traffic] section of the base configuration, after
\* the generator had run
C3_Witness ==
    /\ failure = "duplicate_section"
    /\ HasTrafficSection(base_config)
    /\ invoked = <<"generator">>

\* |candidate[j].cycle - reference[j].cycle|
AbsDiff(j) ==
    IF cand[j].cycle > ref[j].cycle THEN cand[j].cycle - ref[j].cycle
    ELSE ref[j].cycle - cand[j].cycle

RECURSIVE SumAbsDiff(_)
SumAbsDiff(S) ==
    IF S = {} THEN 0
    ELSE LET j == CHOOSE x \in S : TRUE IN AbsDiff(j) + SumAbsDiff(S \ {j})

RECURSIVE SumOfTypes(_)
SumOfTypes(T) ==
    IF T = {} THEN 0
    ELSE LET t == CHOOSE x \in T : TRUE IN accum_by_type[t] + SumOfTypes(T \ {t})

\* the indices up to k of the category of index k
SameType(k) ==
    {j \in 1..k : traffic_type(ref[j].pattern_name) = traffic_type(ref[k].pattern_name)}

RunningSumsExact ==
    /\ pc = "compare" /\ idx = 0 => accum_abs_err = 0 /\ DOMAIN accum_by_type = {}
    /\ \A k \in 1..Len(report) :
          /\ report[k].accum_abs_err = SumAbsDiff(1..k)
          /\ report[k].accum_type_abs_err = SumAbsDiff(SameType(k))
    /\ accum_abs_err = SumAbsDiff(1..Len(report))
    /\ accum_abs_err = SumOfTypes(DOMAIN accum_by_type)

NeverDecrease ==
    /\ accum_abs_err' >= accum_abs_err
    /\ \A t \in DOMAIN accum_by_type :
          t \in DOMAIN accum_by_type' /\ accum_by_type'[t] >= accum_by_type[t]

\* C8: the accumulators start at zero and no step decreases them; the global
\* sum of row i is the sum of |candidate - reference| over the indices up to i,
\* its category sum the same sum over the indices up to i of the category of
\* row i, and the global sum is the sum of the per-category sums.
C8_RunningSums == [](RunningSumsExact) /\ [][NeverDecrease]_vars

\* three rows were emitted, the third of the category of the first and the
\* second of another, each with an error; the category sum of the third row
\* counts the first row and not the second
C8_Witness ==
    /\ Len(report) = 3
    /\ report[1].traffic_type = report[3].traffic_type
    /\ report[2].traffic_type # report[1].traffic_type
    /\ report[1].pattern # report[3].pattern
    /\ \A k \in 1..3 : report[k].error # 0
    /\ report[2].error < 0
    /\ report[3].accum_type_abs_err = AbsDiff(1) + AbsDiff(3)
    /\ report[3].accum_abs_err = AbsDiff(1) + AbsDiff(2) + AbsDiff(3)

\* C10: whenever the simulator exits non-zero or exceeds its timeout, the run
\* aborts before any log is parsed or compared, the captured output is in the
\* candidate log file, and the failure message names that file.
C10_SimulatorFailure ==
    sim_result.outcome \in {"nonzero", "timeout"} =>
        /\ pc = "abort"
        /\ ref = <<>> /\ cand = <<>> /\ report = <<>>
        /\ candidate_log = <<sim_result.stdout>>
        /\ message.see = "candidate_log"

====
